---- MODULE Spec2Model ----
(***************************************************************************)
(* Model of the playlstr client (src/client.py): the settings store        *)
(* (load_settings / save_settings / random_client_id), the account link    *)
(* (link_account) and the run of main(): load, optional link, the          *)
(* unlinked gate and the per-playlist parse-and-upload loop.               *)
(*                                                                         *)
(* Text is modelled as a sequence of chunks.  Every character the code     *)
(* inspects on its own ('.', '/', the JSON punctuation, the characters of  *)
(* a client id) is a chunk of its own; text the code only passes around    *)
(* (a response body, a key name) may be one chunk.                         *)
(***************************************************************************)
EXTENDS Integers, Sequences, FiniteSets

VARIABLES
    args,        \* dict returned by parse_args (main mutates args['url'])
    disk,        \* the settings file: NoFile or its contents
    settings,    \* main's local `settings` (NotBound before load returns)
    pc,          \* position of the run in main
    idx,         \* position of the for loop in args['playlist'] (0 before it)
    loc,         \* main's loop locals: name, filetype, parse_playlist, tracks, response
    handles,     \* playlist files currently open
    trace,       \* observable events in program order: prints, POSTs, opens, parses
    exitStatus,  \* process exit status once the run has ended, Running before
    exc,         \* type of the uncaught exception that ended the run, NoExc otherwise
    api          \* calls made on the settings store by a direct caller, in order

vars == <<args, disk, settings, pc, idx, loc, handles, trace, exitStatus, exc, api>>

----------------------------------------------------------------------------
(* Bounds of the model *)

MaxPlaylists == 2   \* longest playlist list on the command line
MaxSeed == 1        \* states of the random source are 0..MaxSeed
MaxCalls == 3       \* calls a direct caller makes on the settings store

----------------------------------------------------------------------------
(* Python values *)

None == <<"None">>                 \* result of dict.get on an absent key
NoFile == <<"NoFile">>             \* the path is not a file
NotBound == << <<"NameError">> >>  \* a local that has not been assigned
NoExc == "NoExc"
Running == -1

Last(s) == s[Len(s)]

\* bool(v) of a str or None
Truthy(v) == v /= None /\ v /= <<>>

\* A dict is a sequence of <<key, value>> items in insertion order.
DictKeys(d) == {d[k][1] : k \in 1..Len(d)}

DictHas(d, key) == key \in DictKeys(d)

\* d[key] for a key that is present
DictItem(d, key) == d[CHOOSE k \in 1..Len(d) : d[k][1] = key][2]

\* d.get(key)
DictGet(d, key) == IF DictHas(d, key) THEN DictItem(d, key) ELSE None

\* d[key] = value
DictSet(d, key, value) ==
    IF DictHas(d, key)
    THEN [k \in 1..Len(d) |-> IF d[k][1] = key THEN <<key, value>> ELSE d[k]]
    ELSE Append(d, <<key, value>>)

----------------------------------------------------------------------------
(* str methods *)

RECURSIVE Join(_, _)
\* sep.join(parts)
Join(parts, sep) ==
    IF Len(parts) = 0 THEN <<>>
    ELSE IF Len(parts) = 1 THEN parts[1]
    ELSE parts[1] \o sep \o Join(Tail(parts), sep)

RECURSIVE SplitFrom(_, _, _, _)
SplitFrom(s, sep, k, cur) ==
    IF k > Len(s) THEN <<cur>>
    ELSE IF s[k] = sep THEN <<cur>> \o SplitFrom(s, sep, k + 1, <<>>)
    ELSE SplitFrom(s, sep, k + 1, Append(cur, s[k]))

\* s.split(sep) for a one-character sep
Split(s, sep) == SplitFrom(s, sep, 1, <<>>)

RECURSIVE RStrip(_, _)
\* s.rstrip(ch)
RStrip(s, ch) ==
    IF Len(s) > 0 /\ Last(s) = ch THEN RStrip(SubSeq(s, 1, Len(s) - 1), ch) ELSE s

\* 'import_{}'.format(filetype)
ImportAttr(filetype) == <<"import_">> \o filetype

----------------------------------------------------------------------------
(* json.dumps / json.loads on objects whose keys and values are strings *)

Quote == "\""

JsonStr(s) == <<Quote>> \o s \o <<Quote>>

JsonDumps(d) ==
    <<"{">>
    \o Join([k \in 1..Len(d) |-> JsonStr(d[k][1]) \o <<": ">> \o JsonStr(d[k][2])], <<", ">>)
    \o <<"}">>

\* json.dumps of a list of strings
JsonDumpsList(l) ==
    <<"[">> \o Join([k \in 1..Len(l) |-> JsonStr(l[k])], <<", ">>) \o <<"]">>

JsonFail == [ok |-> FALSE, value |-> <<>>, pos |-> 0]

\* A string literal starting at s[p]: its text and the position after it.
JsonParseStr(s, p) ==
    IF p > Len(s) \/ s[p] /= Quote THEN JsonFail
    ELSE LET closing == {q \in (p + 1)..Len(s) : s[q] = Quote}
         IN  IF closing = {} THEN JsonFail
             ELSE LET q == CHOOSE c \in closing : \A o \in closing : c <= o
                  IN  [ok |-> TRUE, value |-> SubSeq(s, p + 1, q - 1), pos |-> q + 1]

RECURSIVE JsonParseItems(_, _, _)
\* The items of an object from s[p] on, up to the closing brace ending the text.
JsonParseItems(s, p, acc) ==
    LET key == JsonParseStr(s, p)
    IN  IF ~key.ok \/ key.pos > Len(s) \/ s[key.pos] \notin {":", ": "} THEN JsonFail
        ELSE LET val == JsonParseStr(s, key.pos + 1)
             IN  IF ~val.ok \/ val.pos > Len(s) THEN JsonFail
                 ELSE LET d == DictSet(acc, key.value, val.value)
                      IN  IF s[val.pos] \in {",", ", "}
                          THEN JsonParseItems(s, val.pos + 1, d)
                          ELSE IF s[val.pos] = "}" /\ val.pos = Len(s)
                          THEN [ok |-> TRUE, value |-> d, pos |-> val.pos + 1]
                          ELSE JsonFail

\* json.loads(s): ok = FALSE stands for json.JSONDecodeError
JsonLoads(s) ==
    IF Len(s) < 2 \/ s[1] /= "{" THEN JsonFail
    ELSE IF s[2] = "}" THEN (IF Len(s) = 2 THEN [ok |-> TRUE, value |-> <<>>, pos |-> 3]
                             ELSE JsonFail)
    ELSE JsonParseItems(s, 2, <<>>)

----------------------------------------------------------------------------
(* random_client_id *)

IdLen == 20

\* string.ascii_lowercase + string.digits
Alphabet ==
    <<"a", "b", "c", "d", "e", "f", "g", "h", "i", "j", "k", "l", "m",
      "n", "o", "p", "q", "r", "s", "t", "u", "v", "w", "x", "y", "z",
      "0", "1", "2", "3", "4", "5", "6", "7", "8", "9">>

Seeds == 0..MaxSeed

\* Characters a client id may be made of
IdChars ==
    {"a", "b", "c", "d", "e", "f", "g", "h", "i", "j", "k", "l", "m",
     "n", "o", "p", "q", "r", "s", "t", "u", "v", "w", "x", "y", "z",
     "0", "1", "2", "3", "4", "5", "6", "7", "8", "9"}

\* random.choice(seq) for the k-th draw of a random source in state seed
RandomChoice(seq, seed, k) == seq[((seed * 17 + k * 7) % Len(seq)) + 1]

\* random_client_id drawing from letters of both cases and digits
random_client_id_mixed(seed) ==
    [k \in 1..IdLen |-> RandomChoice(<<"A", "B", "C", "D", "E">> \o Alphabet, seed, k)]

random_client_id(seed) == [k \in 1..IdLen |-> RandomChoice(Alphabet, seed, k)]

----------------------------------------------------------------------------
(* Files *)

\* f.read() at offset pos: the rest of the file; the offset moves to the end
FileRead(content, pos) ==
    [data |-> SubSeq(content, pos + 1, Len(content)), pos |-> Len(content)]

\* Path(p).is_file()
IsFile(file) == file /= NoFile

\* open(p, 'w').close()
Truncate(file) == <<>>

----------------------------------------------------------------------------
(* The settings store *)

K_id == <<"id">>
K_link == <<"link">>

\* load_settings that writes the id it has just generated to the file
load_settings_persist(file, seed) ==
    LET created == IF ~IsFile(file) THEN Truncate(file) ELSE file
        first == FileRead(created, 0)
        parsed == JsonLoads(FileRead(created, first.pos).data)
        fresh == <<<<K_id, random_client_id(seed)>>>>
    IN  IF Len(first.data) > 0
        THEN IF ~parsed.ok
             THEN [file |-> created, raised |-> "JSONDecodeError", value |-> <<>>]
             ELSE IF Truthy(DictGet(parsed.value, K_id))
             THEN [file |-> created, raised |-> "", value |-> parsed.value]
             ELSE [file |-> created, raised |-> "",
                   value |-> DictSet(parsed.value, K_id, random_client_id(seed))]
        ELSE [file |-> JsonDumps(fresh), raised |-> "", value |-> fresh]

\* load_settings that empties a file it cannot decode before raising
load_settings_clear(file, seed) ==
    LET created == IF ~IsFile(file) THEN Truncate(file) ELSE file
        first == FileRead(created, 0)
        parsed == JsonLoads(FileRead(created, first.pos).data)
    IN  IF Len(first.data) > 0
        THEN IF ~parsed.ok
             THEN [file |-> Truncate(created), raised |-> "JSONDecodeError", value |-> <<>>]
             ELSE IF Truthy(DictGet(parsed.value, K_id))
             THEN [file |-> created, raised |-> "", value |-> parsed.value]
             ELSE [file |-> created, raised |-> "",
                   value |-> DictSet(parsed.value, K_id, random_client_id(seed))]
        ELSE [file |-> created, raised |-> "",
              value |-> <<<<K_id, random_client_id(seed)>>>>]

\* load_settings(settings_file) with the file in state `file`:
\* the file afterwards, the exception raised ("" if none) and the value returned
load_settings(file, seed) ==
    LET created == IF ~IsFile(file) THEN Truncate(file) ELSE file
        first == FileRead(created, 0)
        settings_str == first.data
        second == FileRead(created, first.pos)
        parsed == JsonLoads(second.data)
    IN  IF Len(settings_str) > 0
        THEN IF ~parsed.ok
             THEN [file |-> created, raised |-> "JSONDecodeError", value |-> <<>>]
             ELSE IF Truthy(DictGet(parsed.value, K_id))
             THEN [file |-> created, raised |-> "", value |-> parsed.value]
             ELSE [file |-> created, raised |-> "",
                   value |-> DictSet(parsed.value, K_id, random_client_id(seed))]
        ELSE [file |-> created, raised |-> "",
              value |-> <<<<K_id, random_client_id(seed)>>>>]

\* save_settings that opens the file for writing and writes nothing
save_settings_empty(s, file) == <<>>

\* save_settings(settings, settings_file): the file afterwards
save_settings(s, file) == JsonDumps(s)

----------------------------------------------------------------------------
(* The environment: the network, the importer module, the command line *)

\* A response as the code reads it; status_code 0 stands for requests.post
\* raising a transport exception instead of returning.
Responses ==
    { [status_code |-> 200, text |-> <<"abc123">>, reason |-> <<"OK">>],
      [status_code |-> 403, text |-> <<"bad code">>, reason |-> <<"Forbidden">>],
      [status_code |-> 500, text |-> <<"server error">>,
       reason |-> <<"Internal Server Error">>] }

TransportFault == [status_code |-> 0, text |-> <<>>, reason |-> <<>>]

PostOutcomes == Responses \cup {TransportFault}

\* What a parser can return for a playlist file
TrackLists == { << <<"a.mp3">> >>, << <<"a.mp3">>, <<"b.mp3">> >> }

\* Attributes import_<tag> of the importer module
ImporterAttrs == { <<"import_", "m", "3", "u">> }

\* getattr with a default: an unknown attribute yields the m3u parser
GetAttr_default(attr) ==
    IF attr \in ImporterAttrs THEN attr ELSE <<"import_", "m", "3", "u">>

\* getattr(importer, attr): "" stands for AttributeError
GetAttr(attr) == IF attr \in ImporterAttrs THEN attr ELSE <<>>

PlaylistNames ==
    { <<"m", "i", "x", ".", "m", "3", "u">>,       \* mix.m3u
      <<"m", "i", "x", ".", "x", "y", "z">>,       \* mix.xyz
      <<"m", "i", "x">>,                           \* mix
      <<"b", ".", "m", "3", "u">>,                 \* b.m3u
      <<".", "/", "m", "i", "x", ".", "m", "3", "u">>,      \* ./mix.m3u
      <<"m", "y", ".", "m", "i", "x", ".", "m", "3", "u">> }  \* my.mix.m3u

RECURSIVE SeqsUpTo(_, _)
SeqsUpTo(S, n) ==
    IF n = 0 THEN {<<>>}
    ELSE LET shorter == SeqsUpTo(S, n - 1)
         IN  shorter \cup {Append(s, x) : s \in shorter, x \in S}

Urls == { <<"http://h">>, <<"http://h", "/">>, <<"http://h", "/", "/">> }

LinkCodes == { <<>>, <<"K", "7">> }

DefaultSettingsFile == "./settings.txt"

SettingsPaths == {DefaultSettingsFile}

\* parse_args(): the argparse namespace as a dict
ArgSets ==
    { [playlist |-> p, add_missing |-> FALSE, hash |-> FALSE, url |-> u, link |-> l,
       m3u_ext |-> FALSE, settings_file |-> f] :
        p \in SeqsUpTo(PlaylistNames, MaxPlaylists), u \in Urls, l \in LinkCodes,
        f \in SettingsPaths }

OldId == [k \in 1..IdLen |-> "q"]

\* Settings objects a caller may hold or an earlier run may have saved
SettingsObjects ==
    { <<>>,
      << <<K_id, OldId>> >>,
      << <<K_id, OldId>>, <<K_link, <<"K", "7">>>> >>,
      << <<K_link, <<"K", "7">>>> >>,
      << <<K_id, <<>>>> >>,
      << <<K_id, OldId>>, <<<<"theme">>, <<"dark">>>> >> }

\* A save interrupted mid-write leaves a prefix of the text
TruncatedFile == LET full == JsonDumps(<< <<K_id, OldId>> >>)
                 IN  SubSeq(full, 1, Len(full) - 2)

InitialFiles == {NoFile, <<>>, TruncatedFile} \cup {JsonDumps(s) : s \in SettingsObjects}

----------------------------------------------------------------------------
(* Events of the trace *)

Stdout(t, fmt, fargs) == Append(t, [ev |-> "print", fmt |-> fmt, args |-> fargs])

PostEvent(url, data, response) ==
    [ev |-> "post", url |-> url, data |-> data, response |-> response]

FileEvent(kind, path) == [ev |-> kind, path |-> path]

ParseEvent(parser, path, raised) ==
    [ev |-> "parse", parser |-> parser, path |-> path, raised |-> raised]

\* A line read from standard input by input()
InputEvent(text) == [ev |-> "input", text |-> text]

SaveEvent(path, content) == [ev |-> "save", path |-> path, content |-> content]

----------------------------------------------------------------------------
(* link_account *)

\* link_account that raises with the status line's reason phrase, not the body
link_account_reason(link_code, url, client_id, outcome) ==
    LET post == PostEvent(url \o <<"client-link", "/">>,
                          << <<<<"link">>, link_code>>, <<<<"client">>, client_id>> >>,
                          outcome)
    IN  IF outcome = TransportFault
        THEN [post |-> post, raised |-> "RequestException", text |-> <<>>]
        ELSE IF outcome.status_code = 200
        THEN [post |-> post, raised |-> "", text |-> <<>>]
        ELSE [post |-> post, raised |-> "ConnectionError", text |-> outcome.reason]

\* link_account(link_code, url, client_id) when requests.post ends in `outcome`:
\* the request sent, the exception raised ("" if none) and its text
link_account(link_code, url, client_id, outcome) ==
    LET post == PostEvent(url \o <<"client-link", "/">>,
                          << <<<<"link">>, link_code>>, <<<<"client">>, client_id>> >>,
                          outcome)
    IN  IF outcome = TransportFault
        THEN [post |-> post, raised |-> "RequestException", text |-> <<>>]
        ELSE IF outcome.status_code = 200
        THEN [post |-> post, raised |-> "", text |-> <<>>]
        ELSE [post |-> post, raised |-> "ConnectionError", text |-> outcome.text]

----------------------------------------------------------------------------
(* main *)

LINK_CODE_HELP_URL == <<"http://127.0.0.1:8000", "/", "link">>

Argv0 == <<"client.py">>

NoLocals == [playlist |-> None, name |-> None, filetype |-> None,
             parse_playlist |-> None, tracks |-> <<>>, response |-> TransportFault]

\* sys.exit(code), or main returning (code 0)
Exit(code) == pc' = "exited" /\ exitStatus' = code /\ exc' = NoExc

\* An exception nothing catches: traceback, exit status 1
Uncaught(type) == pc' = "exited" /\ exitStatus' = 1 /\ exc' = type

\* input().lower()
Lower(s) == [k \in 1..Len(s) |-> IF s[k] = "Y" THEN "y" ELSE IF s[k] = "N" THEN "n" ELSE s[k]]

Answers == { <<"y">>, <<"Y">>, <<"n">>, <<>> }

\* lines 93-103: arguments, the empty-list exit, the load of the settings
MainLoad ==
    /\ pc = "main"
    /\ LET t1 == Stdout(trace, "{}",
                       args.playlist \o <<args.url, args.link, <<args.settings_file>>>>)
       IN  IF Len(args.playlist) = 0
           THEN /\ trace' = Stdout(t1, "Specify at least one playlist for importing", <<>>)
                /\ Exit(0)
                /\ UNCHANGED <<disk, settings>>
           ELSE \E seed \in Seeds :
                  LET r == load_settings(disk[args.settings_file], seed)
                  IN  /\ disk' = [disk EXCEPT ![args.settings_file] = r.file]
                      /\ IF r.raised = "JSONDecodeError"
                         THEN /\ trace' = Stdout(t1,
                                     "Error loading settings from {} (malformed file). Delete {} to fix this? (y/N)",
                                     <<<<args.settings_file>>, <<args.settings_file>>>>)
                              /\ pc' = "prompt"
                              /\ UNCHANGED <<settings, exitStatus, exc>>
                         ELSE /\ trace' = t1
                              /\ settings' = r.value
                              /\ pc' = "link"
                              /\ UNCHANGED <<exitStatus, exc>>
    /\ UNCHANGED <<args, idx, loc, handles, api>>

\* lines 104-109: the answer to the reset prompt
MainPrompt ==
    /\ pc = "prompt"
    /\ \E answer \in Answers, seed \in Seeds :
         LET t1 == Append(trace, InputEvent(answer))
         IN  IF Lower(answer) = <<"y">>
             THEN IF "settings" \notin DOMAIN args
                  THEN /\ trace' = t1
                       /\ Uncaught("KeyError")
                       /\ UNCHANGED <<disk, settings>>
                  ELSE LET cleared == [disk EXCEPT ![args["settings"]] = Truncate(@)]
                           r == load_settings(cleared[args.settings_file], seed)
                       IN  IF r.raised /= ""
                           THEN /\ trace' = t1
                                /\ Uncaught(r.raised)
                                /\ disk' = [cleared EXCEPT ![args.settings_file] = r.file]
                                /\ UNCHANGED settings
                           ELSE /\ settings' = r.value
                                /\ disk' = [cleared EXCEPT ![args.settings_file] =
                                                save_settings(r.value, r.file)]
                                /\ trace' = Append(t1, SaveEvent(args.settings_file,
                                                save_settings(r.value, r.file)))
                                /\ pc' = "link"
                                /\ UNCHANGED <<exitStatus, exc>>
             ELSE /\ trace' = t1
                  /\ Exit(0)
                  /\ UNCHANGED <<disk, settings>>
    /\ UNCHANGED <<args, idx, loc, handles, api>>

\* The link step without sys.exit(1): a refused link is reported and the run
\* falls through to lines 117-119
MainLink_NoExit ==
    /\ pc = "link"
    /\ IF ~Truthy(args.link)
       THEN /\ pc' = "gate"
            /\ UNCHANGED <<disk, settings, trace, exitStatus, exc>>
       ELSE \E outcome \in PostOutcomes :
              LET call == link_account(args.link, args.url, DictItem(settings, K_id), outcome)
                  t1 == Append(trace, call.post)
                  t2 == IF call.raised = "ConnectionError"
                        THEN Stdout(t1, "Error linking account ({}).", <<call.text>>)
                        ELSE t1
                  linked == DictSet(settings, K_link, args.link)
                  saved == save_settings(linked, disk[args.settings_file])
              IN  IF call.raised \notin {"", "ConnectionError"}
                  THEN /\ trace' = t1
                       /\ Uncaught(call.raised)
                       /\ UNCHANGED <<disk, settings>>
                  ELSE /\ trace' = Append(Stdout(t2, "Link successful", <<>>),
                                          SaveEvent(args.settings_file, saved))
                       /\ settings' = linked
                       /\ disk' = [disk EXCEPT ![args.settings_file] = saved]
                       /\ pc' = "gate"
                       /\ UNCHANGED <<exitStatus, exc>>
    /\ UNCHANGED <<args, idx, loc, handles, api>>

\* The link step storing the code before the server has answered
MainLink_SetFirst ==
    /\ pc = "link"
    /\ IF ~Truthy(args.link)
       THEN /\ pc' = "gate"
            /\ UNCHANGED <<disk, settings, trace, exitStatus, exc>>
       ELSE \E outcome \in PostOutcomes :
              LET call == link_account(args.link, args.url, DictItem(settings, K_id), outcome)
                  linked == DictSet(settings, K_link, args.link)
                  saved == save_settings(linked, disk[args.settings_file])
                  t1 == Append(Append(trace, SaveEvent(args.settings_file, saved)), call.post)
              IN  /\ settings' = linked
                  /\ disk' = [disk EXCEPT ![args.settings_file] = saved]
                  /\ IF call.raised = "ConnectionError"
                     THEN /\ trace' = Stdout(t1, "Error linking account ({}).", <<call.text>>)
                          /\ Exit(1)
                     ELSE IF call.raised /= ""
                     THEN /\ trace' = t1
                          /\ Uncaught(call.raised)
                     ELSE /\ trace' = Stdout(t1, "Link successful", <<>>)
                          /\ pc' = "gate"
                          /\ UNCHANGED <<exitStatus, exc>>
    /\ UNCHANGED <<args, idx, loc, handles, api>>

\* lines 111-119: the optional link and the save that follows it
MainLink ==
    /\ pc = "link"
    /\ IF ~Truthy(args.link)
       THEN /\ pc' = "gate"
            /\ UNCHANGED <<disk, settings, trace, exitStatus, exc>>
       ELSE \E outcome \in PostOutcomes :
              LET call == link_account(args.link, args.url, DictItem(settings, K_id), outcome)
                  t1 == Append(trace, call.post)
                  linked == DictSet(settings, K_link, args.link)
                  saved == save_settings(linked, disk[args.settings_file])
              IN  IF call.raised = "ConnectionError"
                  THEN /\ trace' = Stdout(t1, "Error linking account ({}).", <<call.text>>)
                       /\ Exit(1)
                       /\ UNCHANGED <<disk, settings>>
                  ELSE IF call.raised /= ""
                  THEN /\ trace' = t1
                       /\ Uncaught(call.raised)
                       /\ UNCHANGED <<disk, settings>>
                  ELSE /\ trace' = Append(Stdout(t1, "Link successful", <<>>),
                                          SaveEvent(args.settings_file, saved))
                       /\ settings' = linked
                       /\ disk' = [disk EXCEPT ![args.settings_file] = saved]
                       /\ pc' = "gate"
                       /\ UNCHANGED <<exitStatus, exc>>
    /\ UNCHANGED <<args, idx, loc, handles, api>>

\* The gate as a warning only: the guidance is printed and the run goes on
MainGate_WarnOnly ==
    /\ pc = "gate"
    /\ trace' = IF ~Truthy(DictGet(settings, K_link))
                THEN Stdout(trace,
                        "No account linked. Get a link code from {} and run {} -l [code]",
                        <<LINK_CODE_HELP_URL, Argv0>>)
                ELSE trace
    /\ args' = [args EXCEPT !.url = RStrip(args.url, "/")]
    /\ pc' = "loop"
    /\ UNCHANGED <<disk, settings, idx, loc, handles, api, exitStatus, exc>>

\* lines 120-124: the unlinked gate, then the url without trailing slashes
MainGate ==
    /\ pc = "gate"
    /\ IF ~Truthy(DictGet(settings, K_link))
       THEN /\ trace' = Stdout(trace,
                   "No account linked. Get a link code from {} and run {} -l [code]",
                   <<LINK_CODE_HELP_URL, Argv0>>)
            /\ Exit(0)
            /\ UNCHANGED args
       ELSE /\ args' = [args EXCEPT !.url = RStrip(args.url, "/")]
            /\ pc' = "loop"
            /\ UNCHANGED <<trace, exitStatus, exc>>
    /\ UNCHANGED <<disk, settings, idx, loc, handles, api>>

\* lines 126-133: the next playlist, its name and filetype, its parser
MainLoop ==
    /\ pc = "loop"
    /\ IF idx = Len(args.playlist)
       THEN /\ Exit(0)
            /\ UNCHANGED <<idx, loc, trace>>
       ELSE LET playlist == args.playlist[idx + 1]
                parts == Split(playlist, ".")
            IN  /\ idx' = idx + 1
                /\ IF Len(parts) /= 2
                   THEN /\ Uncaught("ValueError")
                        /\ loc' = [loc EXCEPT !.playlist = playlist]
                        /\ UNCHANGED trace
                   ELSE LET name == parts[1]
                            filetype == parts[2]
                            parser == GetAttr(ImportAttr(filetype))
                        IN  IF parser = <<>>
                            THEN /\ trace' = Stdout(trace, "Invalid filetype \".{}\"",
                                                   <<filetype>>)
                                 /\ loc' = [loc EXCEPT !.playlist = playlist,
                                                !.name = name, !.filetype = filetype]
                                 /\ UNCHANGED <<pc, exitStatus, exc>>
                            ELSE /\ loc' = [loc EXCEPT !.playlist = playlist,
                                                !.name = name, !.filetype = filetype,
                                                !.parse_playlist = parser]
                                 /\ pc' = "open"
                                 /\ UNCHANGED <<trace, exitStatus, exc>>
    /\ UNCHANGED <<args, disk, settings, handles, api>>

\* open(playlist) inside a try that reports OSError and goes on to the next file
MainOpen_catch ==
    /\ pc = "open"
    /\ \E found \in BOOLEAN :
         IF found
         THEN /\ handles' = handles \cup {loc.playlist}
              /\ trace' = Append(trace, FileEvent("open", loc.playlist))
              /\ pc' = "parse"
         ELSE /\ trace' = Stdout(Append(trace, FileEvent("open_error", loc.playlist)),
                                 "Error adding {}: {}", <<loc.playlist, <<"OSError">>>>)
              /\ pc' = "loop"
              /\ UNCHANGED handles
    /\ UNCHANGED <<args, disk, settings, idx, loc, api, exitStatus, exc>>

\* line 134: open(playlist)
MainOpen ==
    /\ pc = "open"
    /\ \E found \in BOOLEAN :
         IF found
         THEN /\ handles' = handles \cup {loc.playlist}
              /\ trace' = Append(trace, FileEvent("open", loc.playlist))
              /\ pc' = "parse"
              /\ UNCHANGED <<exitStatus, exc>>
         ELSE /\ trace' = Append(trace, FileEvent("open_error", loc.playlist))
              /\ Uncaught("OSError")
              /\ UNCHANGED handles
    /\ UNCHANGED <<args, disk, settings, idx, loc, api>>

\* The parser run on a file opened without a with block and never closed
MainParse_noclose ==
    /\ pc = "parse"
    /\ \/ \E tracks \in TrackLists :
            /\ loc' = [loc EXCEPT !.tracks = tracks]
            /\ trace' = Append(trace, ParseEvent(loc.parse_playlist, loc.playlist, FALSE))
            /\ pc' = "post"
            /\ UNCHANGED <<exitStatus, exc>>
       \/ /\ trace' = Append(trace, ParseEvent(loc.parse_playlist, loc.playlist, TRUE))
          /\ Uncaught("ParserError")
          /\ UNCHANGED loc
    /\ UNCHANGED <<args, disk, settings, idx, api, handles>>

\* line 135 and the end of the with block: the parser runs, the file is closed
MainParse ==
    /\ pc = "parse"
    /\ handles' = handles \ {loc.playlist}
    /\ \/ \E tracks \in TrackLists :
            /\ loc' = [loc EXCEPT !.tracks = tracks]
            /\ trace' = trace \o <<ParseEvent(loc.parse_playlist, loc.playlist, FALSE),
                                   FileEvent("close", loc.playlist)>>
            /\ pc' = "post"
            /\ UNCHANGED <<exitStatus, exc>>
       \/ /\ trace' = trace \o <<ParseEvent(loc.parse_playlist, loc.playlist, TRUE),
                                 FileEvent("close", loc.playlist)>>
          /\ Uncaught("ParserError")
          /\ UNCHANGED loc
    /\ UNCHANGED <<args, disk, settings, idx, api>>

\* The upload step ending the run at the first response that is not 200
MainPost_stop ==
    /\ pc = "post"
    /\ \E outcome \in PostOutcomes :
         LET post == PostEvent(args.url \o <<"/", "client-import", "/">>,
                        << <<<<"playlist_name">>, loc.name>>,
                           <<<<"tracks">>, JsonDumpsList(loc.tracks)>>,
                           <<<<"client_id">>, DictItem(settings, K_id)>> >>,
                        outcome)
             t1 == Append(trace, post)
         IN  IF outcome = TransportFault
             THEN /\ trace' = t1
                  /\ Uncaught("RequestException")
                  /\ UNCHANGED loc
             ELSE IF outcome.status_code /= 200
             THEN /\ loc' = [loc EXCEPT !.response = outcome]
                  /\ trace' = Stdout(t1, "Error adding {}: {}",
                                     <<loc.playlist, outcome.reason>>)
                  /\ Exit(1)
             ELSE /\ loc' = [loc EXCEPT !.response = outcome]
                  /\ trace' = Stdout(t1, "Imported {} to {}/list/{}/",
                                     <<loc.playlist, args.url, outcome.text>>)
                  /\ pc' = "loop"
                  /\ UNCHANGED <<exitStatus, exc>>
    /\ UNCHANGED <<args, disk, settings, idx, handles, api>>

\* The upload step sending the link code where the client id belongs
MainPost_linkid ==
    /\ pc = "post"
    /\ \E outcome \in PostOutcomes :
         LET post == PostEvent(args.url \o <<"/", "client-import", "/">>,
                        << <<<<"playlist_name">>, loc.name>>,
                           <<<<"tracks">>, JsonDumpsList(loc.tracks)>>,
                           <<<<"client_id">>, DictItem(settings, K_link)>> >>,
                        outcome)
             t1 == Append(trace, post)
         IN  IF outcome = TransportFault
             THEN /\ trace' = t1
                  /\ Uncaught("RequestException")
                  /\ UNCHANGED loc
             ELSE /\ loc' = [loc EXCEPT !.response = outcome]
                  /\ trace' = IF outcome.status_code /= 200
                              THEN Stdout(t1, "Error adding {}: {}",
                                          <<loc.playlist, outcome.reason>>)
                              ELSE Stdout(t1, "Imported {} to {}/list/{}/",
                                          <<loc.playlist, args.url, outcome.text>>)
                  /\ pc' = "loop"
                  /\ UNCHANGED <<exitStatus, exc>>
    /\ UNCHANGED <<args, disk, settings, idx, handles, api>>

\* The upload step sending the request a second time after a non-200 answer
MainPost_retry ==
    /\ pc = "post"
    /\ \E outcome \in PostOutcomes, again \in Responses :
         LET data == << <<<<"playlist_name">>, loc.name>>,
                        <<<<"tracks">>, JsonDumpsList(loc.tracks)>>,
                        <<<<"client_id">>, DictItem(settings, K_id)>> >>
             url == args.url \o <<"/", "client-import", "/">>
             t1 == Append(trace, PostEvent(url, data, outcome))
             final == IF outcome.status_code /= 200 THEN again ELSE outcome
             t2 == IF outcome.status_code /= 200
                   THEN Append(t1, PostEvent(url, data, again))
                   ELSE t1
         IN  IF outcome = TransportFault
             THEN /\ trace' = t1
                  /\ Uncaught("RequestException")
                  /\ UNCHANGED loc
             ELSE /\ loc' = [loc EXCEPT !.response = final]
                  /\ trace' = IF final.status_code /= 200
                              THEN Stdout(t2, "Error adding {}: {}",
                                          <<loc.playlist, final.reason>>)
                              ELSE Stdout(t2, "Imported {} to {}/list/{}/",
                                          <<loc.playlist, args.url, final.text>>)
                  /\ pc' = "loop"
                  /\ UNCHANGED <<exitStatus, exc>>
    /\ UNCHANGED <<args, disk, settings, idx, handles, api>>

\* lines 136-142: the client-import POST and the report of its outcome
MainPost ==
    /\ pc = "post"
    /\ \E outcome \in PostOutcomes :
         LET post == PostEvent(args.url \o <<"/", "client-import", "/">>,
                        << <<<<"playlist_name">>, loc.name>>,
                           <<<<"tracks">>, JsonDumpsList(loc.tracks)>>,
                           <<<<"client_id">>, DictItem(settings, K_id)>> >>,
                        outcome)
             t1 == Append(trace, post)
         IN  IF outcome = TransportFault
             THEN /\ trace' = t1
                  /\ Uncaught("RequestException")
                  /\ UNCHANGED loc
             ELSE /\ loc' = [loc EXCEPT !.response = outcome]
                  /\ trace' = IF outcome.status_code /= 200
                              THEN Stdout(t1, "Error adding {}: {}",
                                         <<loc.playlist, outcome.reason>>)
                              ELSE Stdout(t1, "Imported {} to {}/list/{}/",
                                         <<loc.playlist, args.url, outcome.text>>)
                  /\ pc' = "loop"
                  /\ UNCHANGED <<exitStatus, exc>>
    /\ UNCHANGED <<args, disk, settings, idx, handles, api>>

Init ==
    /\ args \in ArgSets
    /\ disk \in [SettingsPaths -> InitialFiles]
    /\ settings = NotBound
    /\ pc = "main"
    /\ idx = 0
    /\ loc = NoLocals
    /\ handles = {}
    /\ trace = <<>>
    /\ exitStatus = Running
    /\ exc = NoExc
    /\ api = <<>>

Next ==
    \/ MainLoad
    \/ MainPrompt
    \/ MainLink
    \/ MainGate
    \/ MainLoop
    \/ MainOpen
    \/ MainParse
    \/ MainPost

Spec == Init /\ [][Next]_vars

----------------------------------------------------------------------------
(* The settings store called directly: any sequence of loads and saves *)

StoreCall(op, arg, before, after, raised, value) ==
    [op |-> op, arg |-> arg, before |-> before, after |-> after, raised |-> raised,
     value |-> value]

StoreLoad ==
    /\ pc = "store"
    /\ Len(api) < MaxCalls
    /\ \E seed \in Seeds :
         LET r == load_settings(disk[args.settings_file], seed)
         IN  /\ disk' = [disk EXCEPT ![args.settings_file] = r.file]
             /\ api' = Append(api, StoreCall("load", <<>>, disk[args.settings_file],
                                             r.file, r.raised, r.value))
    /\ UNCHANGED <<args, settings, pc, idx, loc, handles, trace, exitStatus, exc>>

StoreSave ==
    /\ pc = "store"
    /\ Len(api) < MaxCalls
    /\ \E s \in SettingsObjects :
         /\ disk' = [disk EXCEPT ![args.settings_file] = save_settings(s, @)]
         /\ api' = Append(api, StoreCall("save", s, disk[args.settings_file],
                                         save_settings(s, disk[args.settings_file]),
                                         "", <<>>))
    /\ UNCHANGED <<args, settings, pc, idx, loc, handles, trace, exitStatus, exc>>

StoreInit ==
    /\ args \in {a \in ArgSets : a.playlist = <<>> /\ a.link = <<>> /\ a.url = <<"http://h", "/">>}
    /\ disk \in [SettingsPaths -> InitialFiles]
    /\ settings = NotBound
    /\ pc = "store"
    /\ idx = 0
    /\ loc = NoLocals
    /\ handles = {}
    /\ trace = <<>>
    /\ exitStatus = Running
    /\ exc = NoExc
    /\ api = <<>>

StoreNext ==
    \/ StoreLoad
    \/ StoreSave

StoreSpec == StoreInit /\ [][StoreNext]_vars

----------------------------------------------------------------------------
(* Reading the trace *)

EndsWith(s, suffix) ==
    Len(s) >= Len(suffix) /\ SubSeq(s, Len(s) - Len(suffix) + 1, Len(s)) = suffix

Events(kind) == {k \in 1..Len(trace) : trace[k].ev = kind}

ImportPosts == {k \in Events("post") : EndsWith(trace[k].url, <<"client-import", "/">>)}

LinkPostsOf(t) ==
    {k \in 1..Len(t) : t[k].ev = "post" /\ EndsWith(t[k].url, <<"client-link", "/">>)}

\* A link request was answered with HTTP 200
LinkAcked == \E k \in LinkPostsOf(trace) : trace[k].response.status_code = 200

\* A link request was answered with a status other than 200
LinkRefused(t) == \E k \in LinkPostsOf(t) : t[k].response.status_code \notin {0, 200}

Printed(e, fmt) == e.ev = "print" /\ e.fmt = fmt

Mentions(e, text) == e.ev = "print" /\ \E k \in 1..Len(e.args) : e.args[k] = text

GuidanceFmt == "No account linked. Get a link code from {} and run {} -l [code]"

Linked == settings /= NotBound /\ Truthy(DictGet(settings, K_link))

\* The settings file holds a JSON object with this link and this id
FileHolds(file, link, id) ==
    /\ file /= NoFile
    /\ JsonLoads(file).ok
    /\ DictGet(JsonLoads(file).value, K_link) = link
    /\ DictGet(JsonLoads(file).value, K_id) = id

----------------------------------------------------------------------------
(* Claims *)

\* C1: no playlist is opened or parsed and no client-import POST is sent while
\* settings has no non-empty link; a run whose settings are still unlinked after
\* the optional link step prints the guidance and stops with exit status 0.
C1_UnlinkedNeverUploads ==
    /\ (ImportPosts \cup Events("open") \cup Events("parse")) /= {} => Linked
    /\ (pc = "exited" /\ settings /= NotBound /\ ~Linked /\ ~Truthy(args.link))
          => /\ exitStatus = 0
             /\ exc = NoExc
             /\ Printed(Last(trace), GuidanceFmt)
             /\ idx = 0
    /\ (pc \in {"loop", "open", "parse", "post"} \/ idx > 0) => Linked

C1_Witness ==
    /\ pc = "exited"
    /\ settings /= NotBound
    /\ ~Linked
    /\ Len(args.playlist) > 0
    /\ exitStatus = 0
    /\ Printed(Last(trace), GuidanceFmt)

\* C2: once the link request for --link CODE has returned 200, settings.link is
\* CODE and the settings file holds link = CODE with the run's id; that save
\* precedes every playlist open, parse and client-import POST of the run.
C2_LinkPersistedBeforeUploads ==
    /\ LinkAcked =>
          /\ settings /= NotBound
          /\ DictGet(settings, K_link) = args.link
          /\ FileHolds(disk[args.settings_file], args.link, DictGet(settings, K_id))
    /\ Truthy(args.link) =>
          \A k \in ImportPosts \cup Events("open") \cup Events("parse") :
             \E j \in 1..(k - 1) :
                /\ trace[j].ev = "save"
                /\ trace[j].path = args.settings_file
                /\ FileHolds(trace[j].content, args.link, DictGet(settings, K_id))

C2_Witness ==
    /\ LinkAcked
    /\ ImportPosts /= {}
    /\ FileHolds(disk[args.settings_file], <<"K", "7">>, DictGet(settings, K_id))

\* C3: a link request answered with a non-200 status raises an error whose text
\* is the response body (the report of it mentions the body), and the step
\* changes neither the in-memory settings nor the settings file.
C3_FailedLinkChangesNothing ==
    [][(pc = "link" /\ LinkRefused(trace'))
          => /\ settings' = settings
             /\ disk' = disk
             /\ Printed(Last(trace'), "Error linking account ({}).")
             /\ Mentions(Last(trace'), trace'[Len(trace') - 1].response.text)
             /\ trace'[Len(trace') - 1].response.text /= <<>>]_vars

C3_Witness ==
    /\ pc = "exited"
    /\ LinkRefused(trace)
    /\ Mentions(Last(trace), <<"bad code">>)
    /\ settings /= NotBound

\* The file is a JSON object with a non-empty id
HasValidId(file) ==
    /\ file /= NoFile
    /\ JsonLoads(file).ok
    /\ Truthy(DictGet(JsonLoads(file).value, K_id))

Loads == {k \in 1..Len(api) : api[k].op = "load"}

\* C4: a load of a settings file that is a JSON object with a non-empty id
\* raises nothing and returns that id, however many loads came before it.
C4_LoadKeepsId ==
    \A k \in Loads :
       HasValidId(api[k].before) =>
          /\ api[k].raised = ""
          /\ DictGet(api[k].value, K_id) = DictGet(JsonLoads(api[k].before).value, K_id)

\* C5: a load that directly follows save_settings(S) raises nothing and returns
\* an object in which every key of S has the value it has in S.
C5_SaveLoadRoundTrip ==
    \A k \in Loads :
       (k > 1 /\ api[k - 1].op = "save") =>
          /\ api[k].raised = ""
          /\ \A key \in DictKeys(api[k - 1].arg) :
                DictGet(api[k].value, key) = DictItem(api[k - 1].arg, key)

\* C6: a load of a missing or empty settings file raises nothing and returns an
\* object whose only key is id, 20 characters each a lowercase letter or a
\* digit; a missing file exists and is empty afterwards.
C6_FreshIdOnEmptyOrMissing ==
    \A k \in Loads :
       api[k].before \in {NoFile, <<>>} =>
          /\ api[k].raised = ""
          /\ DictKeys(api[k].value) = {K_id}
          /\ Len(api[k].value) = 1
          /\ Len(DictItem(api[k].value, K_id)) = 20
          /\ \A c \in 1..Len(DictItem(api[k].value, K_id)) :
                DictItem(api[k].value, K_id)[c] \in IdChars
          /\ api[k].after = <<>>

C6_Witness ==
    /\ Len(api) >= 2
    /\ api[1].op = "load" /\ api[1].before = NoFile /\ api[1].raised = ""
    /\ api[2].op = "load" /\ api[2].before = <<>> /\ api[2].raised = ""
    /\ api[1].value /= api[2].value

----------------------------------------------------------------------------
(* Playlist names as the claims read them *)

Dots(p) == {k \in 1..Len(p) : p[k] = "."}

\* For a name with exactly one '.', the text before and after it
BaseOf(p) == SubSeq(p, 1, (CHOOSE k \in Dots(p) : TRUE) - 1)

TagOf(p) == SubSeq(p, (CHOOSE k \in Dots(p) : TRUE) + 1, Len(p))

ParserFor(p) == <<"import_">> \o TagOf(p)

\* base.tag with a registered parser import_<tag>
Resolvable(p) == Cardinality(Dots(p)) = 1 /\ ParserFor(p) \in ImporterAttrs

IsImportPost(e) == e.ev = "post" /\ EndsWith(e.url, <<"client-import", "/">>)

ImportSeq == SelectSeq(trace, IsImportPost)

InvalidFmt == "Invalid filetype \".{}\""

IsOutcome(e) ==
    e.ev = "print" /\ e.fmt \in {InvalidFmt, "Error adding {}: {}", "Imported {} to {}/list/{}/"}

\* No file failed to open, no parser raised, no POST raised
NoFault ==
    \A k \in 1..Len(trace) :
       /\ trace[k].ev /= "open_error"
       /\ trace[k].ev = "parse" => ~trace[k].raised
       /\ trace[k].ev = "post" => trace[k].response /= TransportFault

\* C7: a playlist base.tag with a registered parser import_<tag> is handed to
\* that parser and no other; a playlist base.tag without one is reported and
\* skipped (no open, no parse, no upload for it) and the loop goes on to the
\* next playlist with the run still alive.
C7_DispatchByTag ==
    /\ [](/\ \A k \in Events("parse") \cup Events("open") : Resolvable(trace[k].path)
          /\ \A k \in Events("parse") : trace[k].parser = ParserFor(trace[k].path)
          /\ Len(ImportSeq) <= Cardinality(Events("parse")))
    /\ [][(pc = "loop" /\ idx < Len(args.playlist)
              /\ Cardinality(Dots(args.playlist[idx + 1])) = 1)
            => IF Resolvable(args.playlist[idx + 1])
               THEN /\ pc' = "open"
                    /\ loc'.parse_playlist = ParserFor(args.playlist[idx + 1])
                    /\ loc'.playlist = args.playlist[idx + 1]
                    /\ trace' = trace
               ELSE /\ pc' = "loop"
                    /\ idx' = idx + 1
                    /\ exitStatus' = Running
                    /\ handles' = handles
                    /\ trace' = Append(trace, [ev |-> "print", fmt |-> InvalidFmt,
                                  args |-> <<TagOf(args.playlist[idx + 1])>>])]_vars

C7_Witness ==
    /\ pc = "exited" /\ exitStatus = 0 /\ exc = NoExc
    /\ \E k \in 1..Len(trace) : \E j \in (k + 1)..Len(trace) :
          /\ Printed(trace[k], InvalidFmt)
          /\ trace[j].ev = "parse"
          /\ trace[j].parser = <<"import_", "m", "3", "u">>

\* C8: when every playlist of the list is resolvable and nothing faults, a run
\* that reached the loop ends with one client-import POST per playlist, in list
\* order, whatever status each POST was answered with.
C8_EveryPlaylistAttempted ==
    (/\ pc = "exited"
     /\ idx >= 1
     /\ NoFault
     /\ \A k \in 1..Len(args.playlist) : Resolvable(args.playlist[k]))
    => /\ Len(ImportSeq) = Len(args.playlist)
       /\ \A k \in 1..Len(ImportSeq) :
             DictGet(ImportSeq[k].data, <<"playlist_name">>) = BaseOf(args.playlist[k])

C8_Witness ==
    /\ pc = "exited"
    /\ Len(args.playlist) >= 2
    /\ Len(ImportSeq) = Len(args.playlist)
    /\ ImportSeq[1].response.status_code = 500
    /\ ImportSeq[2].response.status_code = 200

\* C9: the message reported after a client-import POST mentions the response
\* body, for a non-200 response as for a 200 response.
C9_ReportMentionsBody ==
    \A k \in ImportPosts :
       trace[k].response /= TransportFault =>
          /\ k < Len(trace)
          /\ Mentions(trace[k + 1], trace[k].response.text)

\* C10: a run that reached the loop and met no fault ends normally with one
\* outcome (skipped, failed or imported) reported for every path of the list,
\* whatever the number of '.' in each path.
C10_EveryPathGetsOutcome ==
    (pc = "exited" /\ idx >= 1 /\ NoFault)
    => /\ exc = NoExc
       /\ idx = Len(args.playlist)
       /\ Len(SelectSeq(trace, IsOutcome)) = Len(args.playlist)

----------------------------------------------------------------------------
(* The reset prompt as the claims read it *)

PromptFmt ==
    "Error loading settings from {} (malformed file). Delete {} to fix this? (y/N)"

\* The user answered the reset prompt with y or Y
AnsweredYes(t) == \E k \in 1..Len(t) : t[k].ev = "input" /\ t[k].text \in {<<"y">>, <<"Y">>}

\* The user answered the reset prompt with anything else
Declined(t) == \E k \in 1..Len(t) : t[k].ev = "input" /\ t[k].text \notin {<<"y">>, <<"Y">>}

\* C11: once the user has answered 'y' to the reset prompt the settings file
\* named by --settings-file holds the freshly generated settings (a 20-character
\* id, saved after the file was cleared and loaded as empty) and the run has
\* gone on to the link stage; it has not ended with an error.
C11_RecoveryResetsLoadedFile ==
    AnsweredYes(trace) =>
       /\ exc = NoExc
       /\ settings /= NotBound
       /\ DictKeys(settings) \subseteq {K_id, K_link}
       /\ Len(DictGet(settings, K_id)) = 20
       /\ \E k \in Events("save") :
             /\ trace[k].path = args.settings_file
             /\ trace[k].content = JsonDumps(<< <<K_id, DictGet(settings, K_id)>> >>)
       /\ JsonLoads(disk[args.settings_file]).ok

\* C12: a link request answered with a non-200 status ends the run with exit
\* status 1; no playlist is opened or parsed and no client-import POST is sent
\* in that run.
C12_FailedLinkIsFatal ==
    LinkRefused(trace) =>
       /\ pc = "exited"
       /\ exitStatus = 1
       /\ exc = NoExc
       /\ idx = 0
       /\ ImportPosts \cup Events("open") \cup Events("parse") = {}
       /\ Cardinality(Events("post")) = 1

C12_Witness ==
    /\ LinkRefused(trace)
    /\ exitStatus = 1
    /\ Len(args.playlist) = MaxPlaylists
    /\ \A k \in 1..Len(args.playlist) : Resolvable(args.playlist[k])
    /\ Printed(Last(trace), "Error linking account ({}).")

\* The link held in memory and the link held by the settings file
MemLink(s) == IF s = NotBound THEN None ELSE DictGet(s, K_link)

DiskLink(file) ==
    IF file /= NoFile /\ JsonLoads(file).ok THEN DictGet(JsonLoads(file).value, K_link)
    ELSE None

\* C13: settings.link, in memory or in the settings file, changes only in the
\* step in which a link request is answered 200, and then to the submitted
\* code in both places; a non-empty link is never removed or emptied.
C13_LinkOnlyByAckedRequest ==
    [][/\ (\/ MemLink(settings') /= MemLink(settings)
           \/ DiskLink(disk'[args.settings_file]) /= DiskLink(disk[args.settings_file]))
          => /\ pc = "link"
             /\ LinkAcked' /\ ~LinkAcked
             /\ Truthy(args.link)
             /\ MemLink(settings') = args.link
             /\ DiskLink(disk'[args.settings_file]) = args.link
       /\ Truthy(MemLink(settings)) => Truthy(MemLink(settings'))
       /\ Truthy(DiskLink(disk[args.settings_file]))
          => Truthy(DiskLink(disk'[args.settings_file]))]_vars

C13_Witness ==
    /\ pc = "exited"
    /\ LinkAcked
    /\ MemLink(settings) = <<"K", "7">>
    /\ DiskLink(disk[args.settings_file]) = <<"K", "7">>
    /\ Len(ImportSeq) >= 1

\* Strictly increasing maps of the POSTs sent so far to playlist positions
\* reached so far, each POST carrying the name of its position
PostPositions ==
    {f \in [1..Len(ImportSeq) -> 1..idx] :
        /\ \A a, b \in 1..Len(ImportSeq) : a < b => f[a] < f[b]
        /\ \A a \in 1..Len(ImportSeq) :
              /\ Resolvable(args.playlist[f[a]])
              /\ DictGet(ImportSeq[a].data, <<"playlist_name">>) = BaseOf(args.playlist[f[a]])}

\* C14: a run sends at most one POST to the client-link endpoint and, for each
\* position of the playlist list, at most one POST to the client-import
\* endpoint, whatever the answers are.
C14_AtMostOncePosts ==
    /\ Cardinality(LinkPostsOf(trace)) <= 1
    /\ Cardinality(LinkPostsOf(trace)) + Len(ImportSeq) = Cardinality(Events("post"))
    /\ PostPositions /= {}
    /\ pc \in {"open", "parse", "post"} =>
          \E f \in PostPositions : \A a \in 1..Len(ImportSeq) : f[a] < idx

C14_Witness ==
    /\ pc = "exited"
    /\ Cardinality(LinkPostsOf(trace)) = 1
    /\ Len(ImportSeq) = 2
    /\ ImportSeq[1].response.status_code = 500
    /\ ImportSeq[2].response.status_code = 403

\* C15: a load that raises the decode error leaves the settings file as it
\* was; when the user then declines the reset the run stops with exit status
\* 0, the settings file unchanged and no request sent.
C15_DeclinedResetChangesNothing ==
    [][/\ (pc = "main" /\ pc' = "prompt") => disk' = disk
       /\ (pc = "prompt" /\ Declined(trace'))
          => /\ disk' = disk
             /\ pc' = "exited"
             /\ exitStatus' = 0
             /\ exc' = NoExc
             /\ settings' = NotBound
             /\ {k \in 1..Len(trace') : trace'[k].ev \in {"post", "save", "open"}} = {}]_vars

C15_Witness ==
    /\ pc = "exited"
    /\ exitStatus = 0
    /\ Declined(trace)
    /\ \E k \in Events("print") : trace[k].fmt = PromptFmt
    /\ disk[args.settings_file] = TruncatedFile

\* s without its trailing '/' characters
StripSlashes(s) ==
    SubSeq(s, 1, Len(s) - Cardinality({k \in 1..Len(s) : \A j \in k..Len(s) : s[j] = "/"}))

\* C16: whatever the number of trailing slashes of --url, every request goes to
\* the stripped base url followed by /client-link/ or /client-import/.
C16_RequestsUseStrippedUrl ==
    \A k \in Events("post") :
       \/ trace[k].url = StripSlashes(args.url) \o <<"/", "client-link", "/">>
             /\ DictHas(trace[k].data, <<"link">>)
       \/ trace[k].url = StripSlashes(args.url) \o <<"/", "client-import", "/">>
             /\ DictHas(trace[k].data, <<"playlist_name">>)

\* Events of the per-file loop
IsLoopEvent(e) == e.ev \in {"open", "open_error", "parse", "close"} \/ IsImportPost(e)

\* C17: the events of a run follow program order. The link request and its
\* save precede every playlist open; each playlist is opened, parsed and closed
\* before its client-import POST, which has returned before the next open; at
\* most one playlist file is open at a time and none while a POST is sent.
C17_ProgramOrder ==
    /\ Cardinality(handles) <= 1
    /\ pc /= "parse" => handles = {}
    /\ pc = "parse" => handles = {loc.playlist}
    /\ \A k \in LinkPostsOf(trace) \cup Events("save") :
          \A j \in 1..Len(trace) : IsLoopEvent(trace[j]) => k < j
    /\ LinkAcked => \E k \in Events("save") : \A j \in LinkPostsOf(trace) : j < k
    /\ \A k \in Events("open") :
          /\ k > 1 /\ IsLoopEvent(trace[k - 1]) => trace[k - 1].ev = "print" \/ IsImportPost(trace[k - 1])
          /\ \A j \in 1..(k - 1) :
                trace[j].ev = "open" =>
                   \E m \in (j + 1)..(k - 1) : IsImportPost(trace[m])
          /\ k < Len(trace) =>
                /\ k + 2 <= Len(trace)
                /\ trace[k + 1].ev = "parse" /\ trace[k + 1].path = trace[k].path
                /\ trace[k + 2].ev = "close" /\ trace[k + 2].path = trace[k].path
          /\ k = Len(trace) => pc = "parse"
    /\ \A k \in ImportPosts :
          /\ k > 3
          /\ trace[k - 1].ev = "close"
          /\ trace[k - 2].ev = "parse" /\ ~trace[k - 2].raised
          /\ trace[k - 3].ev = "open"
          /\ DictGet(trace[k].data, <<"playlist_name">>) = BaseOf(trace[k - 3].path)

C17_Witness ==
    /\ pc = "parse"
    /\ handles /= {}
    /\ LinkAcked
    /\ Len(ImportSeq) = 1
    /\ idx = 2

\* A fault of the per-file loop: a file that cannot be opened, a parser that
\* raises, a client-import POST that raises
IsLoopFault(e) ==
    \/ e.ev = "open_error"
    \/ e.ev = "parse" /\ e.raised
    \/ IsImportPost(e) /\ e.response = TransportFault

LoopFaults(t) == {k \in 1..Len(t) : IsLoopFault(t[k])}

\* C18: a fault of the per-file loop is not caught. The run ends there as a
\* failure: nothing but the closing of the faulting file follows the fault, no
\* later playlist is reached, and the requests already sent stay as they were.
C18_LoopFaultIsFatal ==
    /\ [](\A k \in LoopFaults(trace) :
            /\ pc = "exited"
            /\ exitStatus = 1
            /\ exc \in {"OSError", "ParserError", "RequestException"}
            /\ \A j \in (k + 1)..Len(trace) : trace[j].ev = "close"
            /\ handles = {})
    /\ [][LoopFaults(trace') /= {} =>
            /\ idx' = idx
            /\ Len(trace') >= Len(trace)
            /\ SubSeq(trace', 1, Len(trace)) = trace]_vars

C18_Witness ==
    /\ pc = "exited"
    /\ idx = 2
    /\ Len(args.playlist) = 2
    /\ Len(ImportSeq) = 1
    /\ ImportSeq[1].response.status_code = 200
    /\ \E k \in LoopFaults(trace) : trace[k].ev = "open_error"

\* The id held by the settings file, None when it holds none
DiskId(file) ==
    IF file /= NoFile /\ JsonLoads(file).ok THEN DictGet(JsonLoads(file).value, K_id)
    ELSE None

\* C19: loading does not persist the id it generates. The settings file
\* changes only when a missing file is created empty, in the save after a link
\* request answered 200, or in the recovery after the answer 'y'; a run that
\* loaded an empty or missing file and stops at the unlinked gate or at a
\* failed link leaves the file empty, so that the next load generates an id.
C19_FreshIdNotPersistedByLoad ==
    [][/\ disk' /= disk
          => \/ /\ pc = "main"
                /\ disk[args.settings_file] = NoFile
                /\ disk'[args.settings_file] = <<>>
             \/ pc = "link" /\ LinkAcked' /\ ~LinkAcked
             \/ pc = "prompt" /\ AnsweredYes(trace')
       /\ (pc = "main" /\ pc' = "link" /\ disk[args.settings_file] \in {NoFile, <<>>})
          => /\ disk'[args.settings_file] = <<>>
             /\ DictKeys(settings') = {K_id}
       /\ (pc \in {"link", "gate"} /\ pc' = "exited" /\ ~LinkAcked'
              /\ disk[args.settings_file] = <<>>)
          => /\ disk'[args.settings_file] = <<>>
             /\ DiskId(disk'[args.settings_file]) = None
             /\ \A seed \in Seeds :
                   LET next == load_settings(disk'[args.settings_file], seed)
                   IN  /\ next.raised = ""
                       /\ next.value = << <<K_id, random_client_id(seed)>> >>
                       /\ next.file = <<>>]_vars

C19_Witness ==
    /\ pc = "exited"
    /\ settings /= NotBound
    /\ Truthy(DictGet(settings, K_id))
    /\ disk[args.settings_file] = <<>>
    /\ LinkRefused(trace)
    /\ \E seed \in Seeds :
          DictGet(load_settings(disk[args.settings_file], seed).value, K_id)
             /= DictGet(settings, K_id)

\* C20: the client id is the same throughout a run: the client sent with the
\* link request, the id in every text saved to the settings file and the
\* client_id of every client-import POST are the id of settings, which never
\* changes once loaded; whenever the settings file holds an id at the time of
\* an import POST, it is that id.
C20_OneClientIdPerRun ==
    /\ [](/\ settings /= NotBound => Len(DictGet(settings, K_id)) = 20
          /\ \A k \in LinkPostsOf(trace) :
                DictGet(trace[k].data, <<"client">>) = DictGet(settings, K_id)
          /\ \A k \in ImportPosts :
                DictGet(trace[k].data, <<"client_id">>) = DictGet(settings, K_id)
          /\ \A k \in Events("save") : DiskId(trace[k].content) = DictGet(settings, K_id)
          /\ (ImportPosts /= {} /\ DiskId(disk[args.settings_file]) /= None)
                => DiskId(disk[args.settings_file]) = DictGet(settings, K_id))
    /\ [][settings /= NotBound
            => /\ settings' /= NotBound
               /\ DictGet(settings', K_id) = DictGet(settings, K_id)]_vars

C20_Witness ==
    /\ pc = "exited"
    /\ Len(ImportSeq) = 2
    /\ \E k \in LinkPostsOf(trace) :
          /\ DictGet(trace[k].data, <<"client">>) = DictGet(ImportSeq[2].data, <<"client_id">>)
          /\ DictGet(trace[k].data, <<"client">>) = DiskId(disk[args.settings_file])
    /\ DictGet(settings, K_id) = random_client_id(MaxSeed)

====
